---- MODULE Spec2Model ----
(***************************************************************************)
(* OrganChain: the ledger contract (chaincode/organchain/organchain.go),   *)
(* the REST routes that submit its transactions (backend/server.js) and    *)
(* the matching screen of the web client (runMatching, handleApproveMatch).*)
(*                                                                         *)
(* The world state is one flat key-value store.  A stored value is the     *)
(* JSON document of a Patient, Donor, Match or Hospital struct.  A         *)
(* document is a record over the union of the fields of the four structs,  *)
(* a field that the document does not carry holding Go's zero value: that  *)
(* is what json.Unmarshal leaves in a struct field the document lacks, so  *)
(* reading a document of one class into the struct of another is modelled  *)
(* as the code does it.  The id field always equals the key (every writer  *)
(* stores ID: id under key id), so it is the key.  The nameHash, name,     *)
(* email, phone and createdAt fields of patients, donors and matches are   *)
(* written once and never read by any operation here; they are left out.   *)
(* A nil organ slice and an empty one are both <<>>:                       *)
(* every reader (GetDonor, GetAllDonors, the client's `|| []`) makes a nil *)
(* one empty before use.                                                   *)
(*                                                                         *)
(* A contract function runs as one ledger transaction: its writes commit   *)
(* together or not at all, so each is one atomic step.                     *)
(***************************************************************************)
EXTENDS Integers, Sequences, FiniteSets, TLC

\* ---------------------------------------------------------------- bounds
\* Requests sent to the routes from outside the modelled sessions.
MaxOps == 3
\* Readings of the client clock (Date.now()), hence match ids MATCH-1..
MaxNow == 2
\* Longest organ list a registration passes.
MaxOrgans == 2

\* ---------------------------------------------------------------- keys
PatKeySeq == <<"PAT-001", "PAT-002">>
DonKeySeq == <<"DON-101", "DON-102", "DON-103">>
MatchKey(t) == "MATCH-" \o ToString(t)
MatchKeySeq == [t \in 1..MaxNow |-> MatchKey(t)]

Range(q) == {q[i] : i \in 1..Len(q)}
PatKeys == Range(PatKeySeq)
DonKeys == Range(DonKeySeq)
MatchKeys == Range(MatchKeySeq)
\* The hospital keys, in the order of the HOSP- range scan.
HospKeySeq == <<"HOSP-AIIMS", "HOSP-APOLLO", "HOSP-FORTIS">>
HospKeys == Range(HospKeySeq)
Keys == PatKeys \cup DonKeys \cup MatchKeys \cup HospKeys

\* ---------------------------------------------------------------- values
BloodTypes == {"O-", "O+", "A-", "A+", "B-", "B+", "AB-", "AB+"}
\* What callers pass in this model.
PatBloodIn == {"A+"}
DonBloodIn == {"O-"}
NeedIn == {"Kidney"}
OrganIn == {"Kidney", "Liver"}
DonIdIn == {"DON-101"}
HlaIn == {"A2, A24, B35, B44, DR1, DR4"}
HospIn == {"HOSP-APOLLO"}
DecisionIn == {"VERIFIED", "REJECTED", "PENDING_VERIFICATION"}
StatusIn == {"WAITING", "MATCHED", "TRANSPLANTED"}
OrganListsIn == UNION {[1..n -> NeedIn] : n \in 0..MaxOrgans}
\* What uploadToIPFS answers, and the consent hash a registration carries.
IpfsIn == {"QmUpload"}
ConsentIn == {"0xconsent"}
\* What the peer's clock reads (time.Now()) when it stamps a patient.  A
\* clock reading is a whole number of days; createdAt is kept for patients
\* only, no code reading the createdAt of a donor, a match or a hospital.
CreatedAtIn == {0}

NoRec == [docType |-> "<absent>"]
\* The nil slice json.Unmarshal yields for the JSON text null, which
\* json.Marshal stores as null again: not the empty list <<>>.
NilSlice == <<"<nil>">>
ZeroRec ==
    [docType |-> "", bloodType |-> "", hla |-> "", organNeeded |-> "",
     status |-> "", hospitalId |-> "", organsAvailable |-> <<>>,
     verificationStatus |-> "", verifiedBy |-> "", patientId |-> "",
     donorId |-> "", organType |-> "", approvedBy |-> "",
     ipfsHash |-> "", consentHash |-> "", createdAt |-> 0,
     name |-> "", passwordHash |-> "", location |-> "", isActive |-> FALSE]

Clients == {"c1", "c2"}

\* tx: per caller, the transaction it has submitted (endorsed and
\* not yet committed, or answered).  resp: the body of the latest answer of
\* a hospital read.
VARIABLES store, last, ops, now, ui, tx, resp
vars == <<store, last, ops, now, ui, tx, resp>>

\* ---------------------------------------------------------------- ledger
\* json.Unmarshal of a stored document into a Patient: the Patient fields the
\* document carries, zero values for the rest.
AsPatient(r) ==
    [ZeroRec EXCEPT !.docType = r.docType, !.bloodType = r.bloodType,
                    !.hla = r.hla, !.organNeeded = r.organNeeded,
                    !.status = r.status, !.hospitalId = r.hospitalId,
                    !.ipfsHash = r.ipfsHash, !.createdAt = r.createdAt]

\* json.Unmarshal of a stored document into a Donor.
AsDonor(r) ==
    [ZeroRec EXCEPT !.docType = r.docType, !.bloodType = r.bloodType,
                    !.hla = r.hla, !.organsAvailable = r.organsAvailable,
                    !.verificationStatus = r.verificationStatus,
                    !.verifiedBy = r.verifiedBy, !.ipfsHash = r.ipfsHash,
                    !.consentHash = r.consentHash,
                    !.createdAt = r.createdAt]

RecordExists(s, id) == s[id] # NoRec

\* [ok, val]: the struct read, or the "does not exist" error.
GetPatient(s, id) ==
    IF s[id] = NoRec THEN [ok |-> FALSE, val |-> ZeroRec]
    ELSE [ok |-> TRUE, val |-> AsPatient(s[id])]

\* A nil OrgansAvailable is returned as the empty list.
OrEmpty(organs) == IF organs = NilSlice THEN <<>> ELSE organs

\* GetDonor returning a nil OrgansAvailable as it is stored.
GetDonorRaw(s, id) ==
    IF s[id] = NoRec THEN [ok |-> FALSE, val |-> ZeroRec]
    ELSE [ok |-> TRUE, val |-> AsDonor(s[id])]

GetDonor(s, id) ==
    IF s[id] = NoRec THEN [ok |-> FALSE, val |-> ZeroRec]
    ELSE [ok |-> TRUE,
          val |-> [AsDonor(s[id]) EXCEPT
                      !.organsAvailable = OrEmpty(@)]]

\* Every contract function below yields [st, err]: the world state its
\* transaction commits (the state it read, when it returns an error) and
\* the error it returns ("" for nil).
InitLedger(s, createdAt) ==
    LET p1 == [ZeroRec EXCEPT !.docType = "patient", !.bloodType = "A+",
                   !.hla = "A2, A24, B35, B44, DR1, DR4",
                   !.organNeeded = "Kidney", !.status = "WAITING",
                   !.hospitalId = "HOSP-NY", !.ipfsHash = "QmXyZ...123",
                   !.createdAt = createdAt]
        p2 == [ZeroRec EXCEPT !.docType = "patient", !.bloodType = "O-",
                   !.hla = "A1, A3, B7, B8, DR15, DR17",
                   !.organNeeded = "Liver", !.status = "WAITING",
                   !.hospitalId = "HOSP-CA", !.ipfsHash = "QmAbC...456",
                   !.createdAt = createdAt]
        d1 == [ZeroRec EXCEPT !.docType = "donor", !.bloodType = "O-",
                   !.hla = "A2, A24, B35, B44, DR1, DR4",
                   !.organsAvailable = <<"Kidney", "Liver">>,
                   !.ipfsHash = "QmDon...999",
                   !.consentHash = "0x123...signed"]
        d2 == [ZeroRec EXCEPT !.docType = "donor", !.bloodType = "AB+",
                   !.hla = "A1, A2, B8, B44, DR3, DR4",
                   !.organsAvailable = <<"Heart">>,
                   !.ipfsHash = "QmDon...888",
                   !.consentHash = "0x456...signed"]
    IN  [st |-> [s EXCEPT !["PAT-001"] = p1, !["PAT-002"] = p2,
                          !["DON-101"] = d1, !["DON-102"] = d2],
         err |-> ""]

\* ClearLedger deleting the hospital range as well.
ClearLedgerAll(s) ==
    [st |-> [k \in DOMAIN s |-> NoRec], err |-> ""]

ClearLedger(s) ==
    [st |-> [k \in DOMAIN s |->
                IF k \in PatKeys \cup DonKeys \cup MatchKeys THEN NoRec
                ELSE s[k]],
     err |-> ""]

\* CreatePatient without its existence check.
CreatePatientUnchecked(s, id, bloodType, hla, organNeeded, ipfsHash, hospitalId, createdAt) ==
    [st |-> [s EXCEPT ![id] =
                [ZeroRec EXCEPT !.docType = "patient",
                    !.bloodType = bloodType, !.hla = hla,
                    !.organNeeded = organNeeded, !.ipfsHash = ipfsHash,
                    !.status = "WAITING", !.hospitalId = hospitalId,
                        !.createdAt = createdAt]],
     err |-> ""]

CreatePatient(s, id, bloodType, hla, organNeeded, ipfsHash, hospitalId, createdAt) ==
    IF RecordExists(s, id) THEN [st |-> s, err |-> "AlreadyExists"]
    ELSE [st |-> [s EXCEPT ![id] =
                    [ZeroRec EXCEPT !.docType = "patient",
                        !.bloodType = bloodType, !.hla = hla,
                        !.organNeeded = organNeeded, !.ipfsHash = ipfsHash,
                        !.status = "WAITING", !.hospitalId = hospitalId,
                        !.createdAt = createdAt]],
          err |-> ""]

CreateDonor(s, id, bloodType, hla, organsAvailable, ipfsHash, consentHash) ==
    IF RecordExists(s, id) THEN [st |-> s, err |-> "AlreadyExists"]
    ELSE [st |-> [s EXCEPT ![id] =
                    [ZeroRec EXCEPT !.docType = "donor",
                        !.bloodType = bloodType, !.hla = hla,
                        !.organsAvailable = organsAvailable,
                        !.ipfsHash = ipfsHash, !.consentHash = consentHash,
                        !.verificationStatus = "PENDING_VERIFICATION",
                        !.verifiedBy = ""]],
          err |-> ""]

\* VerifyDonor without its check of the status passed.
VerifyDonorUnvalidated(s, donorId, hospitalId, status) ==
    LET got == GetDonor(s, donorId) IN
    IF ~got.ok THEN [st |-> s, err |-> "NotFound"]
    ELSE [st |-> [s EXCEPT ![donorId] =
                    [got.val EXCEPT !.verificationStatus = status,
                                    !.verifiedBy = hospitalId]],
          err |-> ""]

\* VerifyDonor storing a donor built anew from the fields it shows, without
\* the consent hash.
VerifyDonorDroppingConsent(s, donorId, hospitalId, status) ==
    LET got == GetDonor(s, donorId) IN
    IF ~got.ok THEN [st |-> s, err |-> "NotFound"]
    ELSE IF status # "VERIFIED" /\ status # "REJECTED"
    THEN [st |-> s, err |-> "InvalidStatus"]
    ELSE [st |-> [s EXCEPT ![donorId] =
                    [got.val EXCEPT !.verificationStatus = status,
                                    !.verifiedBy = hospitalId,
                                    !.consentHash = ""]],
          err |-> ""]

VerifyDonor(s, donorId, hospitalId, status) ==
    LET got == GetDonor(s, donorId) IN
    IF ~got.ok THEN [st |-> s, err |-> "NotFound"]
    ELSE IF status # "VERIFIED" /\ status # "REJECTED"
    THEN [st |-> s, err |-> "InvalidStatus"]
    ELSE [st |-> [s EXCEPT ![donorId] =
                    [got.val EXCEPT !.verificationStatus = status,
                                    !.verifiedBy = hospitalId]],
          err |-> ""]

\* The organ list without its first entry equal to organToRemove.
RemoveOrganFirst(organs, organToRemove) ==
    IF \A i \in 1..Len(organs) : organs[i] # organToRemove THEN organs
    ELSE LET i == CHOOSE j \in 1..Len(organs) :
                    /\ organs[j] = organToRemove
                    /\ \A k \in 1..(j - 1) : organs[k] # organToRemove
         IN  SubSeq(organs, 1, i - 1) \o SubSeq(organs, i + 1, Len(organs))

\* The organ list without any entry equal to organToRemove.
RemoveOrgan(organs, organToRemove) ==
    SelectSeq(organs, LAMBDA organ : organ # organToRemove)

UpdateDonorStatus(s, id, organToRemove) ==
    LET got == GetDonor(s, id) IN
    IF ~got.ok THEN [st |-> s, err |-> "NotFound"]
    ELSE [st |-> [s EXCEPT ![id] =
                    [got.val EXCEPT !.organsAvailable =
                        RemoveOrgan(got.val.organsAvailable, organToRemove)]],
          err |-> ""]

\* CreateMatch without its patient update.
CreateMatchUnmarked(s, id, patientId, donorId, organType, approvedBy) ==
    [st |-> [s EXCEPT ![id] =
                [ZeroRec EXCEPT !.docType = "match",
                    !.patientId = patientId, !.donorId = donorId,
                    !.organType = organType, !.status = "PENDING",
                    !.approvedBy = approvedBy]],
     err |-> ""]

\* The patient write comes first and the match write last, so a match id
\* equal to patientId leaves the match document under that key.
CreateMatch(s, id, patientId, donorId, organType, approvedBy) ==
    LET match == [ZeroRec EXCEPT !.docType = "match",
                      !.patientId = patientId, !.donorId = donorId,
                      !.organType = organType, !.status = "PENDING",
                      !.approvedBy = approvedBy]
        s1 == IF s[patientId] # NoRec
              THEN [s EXCEPT ![patientId] =
                      [AsPatient(s[patientId]) EXCEPT !.status = "MATCHED"]]
              ELSE s
    IN  [st |-> [s1 EXCEPT ![id] = match], err |-> ""]

UpdatePatientStatus(s, id, status) ==
    LET got == GetPatient(s, id) IN
    IF ~got.ok THEN [st |-> s, err |-> "NotFound"]
    ELSE [st |-> [s EXCEPT ![id] = [got.val EXCEPT !.status = status]],
          err |-> ""]

\* ---------------------------------------------------------------- hospitals
\* json.Unmarshal of a stored document into a Hospital.
AsHospital(r) ==
    [ZeroRec EXCEPT !.docType = r.docType, !.name = r.name,
                    !.passwordHash = r.passwordHash,
                    !.location = r.location, !.isActive = r.isActive,
                    !.createdAt = r.createdAt]

InitHospitals(s) ==
    LET h1 == [ZeroRec EXCEPT !.docType = "hospital",
                   !.name = "Apollo Hospital", !.location = "Mumbai",
                   !.passwordHash =
      "15da1cc6ebf7b7b13225c0d6d89e8cab4d40d4672c226618f1e74e5515685f2c",
                   !.isActive = TRUE]
        h2 == [ZeroRec EXCEPT !.docType = "hospital",
                   !.name = "AIIMS Delhi", !.location = "New Delhi",
                   !.passwordHash =
      "7810c7831b4fcefb7fb887bde3ef976b9d442d39216b155c84f1f67b38f49229",
                   !.isActive = TRUE]
        h3 == [ZeroRec EXCEPT !.docType = "hospital",
                   !.name = "Fortis Hospital", !.location = "Bangalore",
                   !.passwordHash =
      "72cceae42f682d82c0dc46bcd62c2cf85a95422b3d35eda8ef3e6c7d219e7af6",
                   !.isActive = TRUE]
    IN  [st |-> [s EXCEPT !["HOSP-APOLLO"] = h1, !["HOSP-AIIMS"] = h2,
                          !["HOSP-FORTIS"] = h3],
         err |-> ""]

GetHospital(s, id) ==
    IF s[id] = NoRec THEN [ok |-> FALSE, val |-> ZeroRec]
    ELSE [ok |-> TRUE, val |-> AsHospital(s[id])]

\* The Hospital struct as it is marshalled into an answer.
HospitalJSON(id, h) ==
    [id |-> id, name |-> h.name, passwordHash |-> h.passwordHash,
     location |-> h.location, docType |-> h.docType, isActive |-> h.isActive]

\* AuthenticateHospital without its IsActive check.
AuthenticateHospitalIgnoringActive(s, id, passwordHash) ==
    LET got == GetHospital(s, id) IN
    IF ~got.ok THEN [err |-> "HospitalNotFound", body |-> <<>>]
    ELSE IF got.val.passwordHash # passwordHash
    THEN [err |-> "InvalidCredentials", body |-> <<>>]
    ELSE [err |-> "",
          body |-> <<[id |-> id, name |-> got.val.name,
                      location |-> got.val.location]>>]

\* [err, body]: the error returned, or the one answer document.
AuthenticateHospital(s, id, passwordHash) ==
    LET got == GetHospital(s, id) IN
    IF ~got.ok THEN [err |-> "HospitalNotFound", body |-> <<>>]
    ELSE IF ~got.val.isActive THEN [err |-> "NotActive", body |-> <<>>]
    ELSE IF got.val.passwordHash # passwordHash
    THEN [err |-> "InvalidCredentials", body |-> <<>>]
    ELSE [err |-> "",
          body |-> <<[id |-> id, name |-> got.val.name,
                      location |-> got.val.location]>>]

\* ---------------------------------------------------------------- listings
\* The keys of a range scan that hold a document, in key order.
Present(s, keySeq) == SelectSeq(keySeq, LAMBDA k : s[k] # NoRec)

GetAllPatients(s) ==
    LET ks == Present(s, PatKeySeq) IN
    [i \in 1..Len(ks) |-> [id |-> ks[i], rec |-> AsPatient(s[ks[i]])]]

GetAllDonors(s) ==
    LET ks == Present(s, DonKeySeq) IN
    [i \in 1..Len(ks) |->
        [id |-> ks[i],
         rec |-> [AsDonor(s[ks[i]]) EXCEPT !.organsAvailable = OrEmpty(@)]]]

GetAllHospitals(s) ==
    LET ks == Present(s, HospKeySeq) IN
    [i \in 1..Len(ks) |-> HospitalJSON(ks[i], AsHospital(s[ks[i]]))]

\* ---------------------------------------------------------------- matching
\* canReceiveFrom with the O- column missing from the AB+ row.
canReceiveFromShortRow(recipientType, donorType) ==
    LET map == [t \in BloodTypes |->
            CASE t = "O-"  -> {"O-"}
              [] t = "O+"  -> {"O+", "O-"}
              [] t = "A-"  -> {"A-", "O-"}
              [] t = "A+"  -> {"A+", "A-", "O+", "O-"}
              [] t = "B-"  -> {"B-", "O-"}
              [] t = "B+"  -> {"B+", "B-", "O+", "O-"}
              [] t = "AB-" -> {"AB-", "A-", "B-", "O-"}
              [] t = "AB+" -> BloodTypes \ {"O-"}]
    IN  recipientType \in BloodTypes /\ donorType \in map[recipientType]

canReceiveFrom(recipientType, donorType) ==
    LET map == [t \in BloodTypes |->
            CASE t = "O-"  -> {"O-"}
              [] t = "O+"  -> {"O+", "O-"}
              [] t = "A-"  -> {"A-", "O-"}
              [] t = "A+"  -> {"A+", "A-", "O+", "O-"}
              [] t = "B-"  -> {"B-", "O-"}
              [] t = "B+"  -> {"B+", "B-", "O+", "O-"}
              [] t = "AB-" -> {"AB-", "A-", "B-", "O-"}
              [] t = "AB+" -> BloodTypes]
    IN  recipientType \in BloodTypes /\ donorType \in map[recipientType]

\* The characters of the hla strings of this model, one by one (a string
\* is taken apart by this table only).
Chars(str) ==
    CASE str = "A2, A24, B35, B44, DR1, DR4" ->
            <<"A", "2", ",", " ", "A", "2", "4", ",", " ", "B", "3", "5",
              ",", " ", "B", "4", "4", ",", " ", "D", "R", "1", ",", " ",
              "D", "R", "4">>
      [] str = "A1, A3, B7, B8, DR15, DR17" ->
            <<"A", "1", ",", " ", "A", "3", ",", " ", "B", "7", ",", " ",
              "B", "8", ",", " ", "D", "R", "1", "5", ",", " ", "D", "R",
              "1", "7">>
      [] str = "A1, A2, B8, B44, DR3, DR4" ->
            <<"A", "1", ",", " ", "A", "2", ",", " ", "B", "8", ",", " ",
              "B", "4", "4", ",", " ", "D", "R", "3", ",", " ", "D", "R",
              "4">>
      [] str = "A1, B8" -> <<"A", "1", ",", " ", "B", "8">>
      [] str = "A1, A1" -> <<"A", "1", ",", " ", "A", "1">>
      [] str = "A2,B35 " -> <<"A", "2", ",", "B", "3", "5", " ">>
      [] str = "A1" -> <<"A", "1">>
      [] str = "" -> <<>>

\* str.split(','): the pieces between the commas, as character sequences;
\* a string without a comma, the empty one too, is one piece.
RECURSIVE split(_)
split(cs) ==
    IF \A i \in 1..Len(cs) : cs[i] # ","
    THEN <<cs>>
    ELSE LET i == CHOOSE j \in 1..Len(cs) :
                    cs[j] = "," /\ \A k \in 1..(j - 1) : cs[k] # ","
         IN  <<SubSeq(cs, 1, i - 1)>> \o split(SubSeq(cs, i + 1, Len(cs)))

\* s.trim(): without the blanks at either end.
RECURSIVE trim(_)
trim(cs) ==
    IF cs # <<>> /\ cs[1] = " " THEN trim(Tail(cs))
    ELSE IF cs # <<>> /\ cs[Len(cs)] = " "
         THEN trim(SubSeq(cs, 1, Len(cs) - 1))
         ELSE cs

\* The hla strings of this model.
HlaStrings ==
    {"A2, A24, B35, B44, DR1, DR4", "A1, A3, B7, B8, DR15, DR17",
     "A1, A2, B8, B44, DR3, DR4", "A1, B8", "A1, A1", "A2,B35 ", "A1", ""}

\* (x.hla || '').split(',').map(s => s.trim()), for each of the strings.
splitTrimmed ==
    [hla \in HlaStrings |->
        LET pieces == split(Chars(hla)) IN
        [i \in 1..Len(pieces) |-> trim(pieces[i])]]

hlaTokens(hla) == splitTrimmed[hla]

\* The tokens of the patient that are among the donor's, each as often as
\* the patient lists it.
filtered ==
    [p \in HlaStrings |-> [d \in HlaStrings |->
        LET donorHla == hlaTokens(d) IN
        SelectSeq(hlaTokens(p), LAMBDA antigen : antigen \in Range(donorHla))]]

commonAntigens(patient, donor) == filtered[patient.hla][donor.hla]

\* Scores are fractions [num, den] with den > 0.
hlaRawScore(patient, donor) ==
    LET n == Len(hlaTokens(patient.hla)) IN
    [num |-> Len(commonAntigens(patient, donor)) * 100,
     den |-> IF n > 1 THEN n ELSE 1]

\* new Date() - new Date(patient.createdAt), in days: the clock of the
\* client against the stamp of the peer.
daysWaiting(patient, clock) == clock - patient.createdAt

\* Math.min(daysWaiting / 30, 1) * 100
waitlistScore(patient, clock) ==
    LET d == daysWaiting(patient, clock) IN
    IF d >= 30 THEN [num |-> 100, den |-> 1] ELSE [num |-> d * 100, den |-> 30]

\* isExactBloodMatch holding for every blood type the patient can receive.
isExactBloodMatchLoose(patient, donor) ==
    canReceiveFrom(patient.bloodType, donor.bloodType)

isExactBloodMatch(patient, donor) ==
    patient.bloodType = donor.bloodType

\* The three filters of runMatching for one donor of the list.
isVerified(donor) == donor.verificationStatus = "VERIFIED"
isBloodCompatible(patient, donor) ==
    canReceiveFrom(patient.bloodType, donor.bloodType)
isOrganCompatible(patient, donor) ==
    patient.organNeeded \in Range(OrEmpty(donor.organsAvailable))

\* compatible without the verification filter.
compatibleUnverified(patient, donor) ==
    isBloodCompatible(patient, donor) /\ isOrganCompatible(patient, donor)

compatible(patient, donor) ==
    isBloodCompatible(patient, donor) /\ isOrganCompatible(patient, donor)
        /\ isVerified(donor)

\* reason with the blood filter looked at first.
reasonBloodFirst(patient, donor) ==
    IF ~isBloodCompatible(patient, donor) THEN "Blood Mismatch"
    ELSE IF ~isVerified(donor) THEN "Donor Not Verified"
    ELSE IF ~isOrganCompatible(patient, donor) THEN "Organ Mismatch"
    ELSE "Compatible"

reason(patient, donor) ==
    IF ~isVerified(donor) THEN "Donor Not Verified"
    ELSE IF ~isBloodCompatible(patient, donor) THEN "Blood Mismatch"
    ELSE IF ~isOrganCompatible(patient, donor) THEN "Organ Mismatch"
    ELSE "Compatible"

\* The weighted sum, computed for every donor whatever the filters say.
weighted(patient, donor, clock) ==
    LET h == hlaRawScore(patient, donor)
        w == waitlistScore(patient, clock)
        bonus == IF isExactBloodMatch(patient, donor) THEN 10 ELSE 0
    IN  [num |-> 6 * h.num * w.den + 3 * w.num * h.den
                    + 10 * bonus * h.den * w.den,
         den |-> 10 * h.den * w.den]

\* totalScore without the test of the three filters.
totalScoreUnguarded(patient, donor, clock) ==
    weighted(patient, donor, clock)

\* totalScore: 0 unless the three filters pass.
totalScore(patient, donor, clock) ==
    IF compatible(patient, donor) THEN weighted(patient, donor, clock)
    ELSE [num |-> 0, den |-> 1]

\* x.toFixed(digits): the decimal nearest to x, a half going away from 0,
\* as its count of units of 10^(-digits).
toFixed(x, digits) ==
    LET n == x.num * 10^digits
        a == IF n < 0 THEN 0 - n ELSE n
        q == (2 * a + x.den) \div (2 * x.den)
    IN  IF n < 0 THEN 0 - q ELSE q

\* The entries runMatching computes for the patient from the client's
\* donor list, in list order; the clock is read once for the list.
results(patient, donors, clock) ==
    [i \in 1..Len(donors) |->
        [donorId |-> donors[i].id,
         bloodType |-> donors[i].rec.bloodType,
         score |-> toFixed(totalScore(patient, donors[i].rec, clock), 1),
         hlaScore |-> toFixed(hlaRawScore(patient, donors[i].rec), 0),
         daysWaiting |-> daysWaiting(patient, clock),
         common |-> Len(commonAntigens(patient, donors[i].rec)),
         compatible |-> compatible(patient, donors[i].rec),
         reason |-> reason(patient, donors[i].rec)]]

\* The comparator of the sort: negative when a goes before b.
compare(a, b) ==
    IF a.compatible # b.compatible
    THEN (IF b.compatible THEN 1 ELSE 0 - 1)
    ELSE b.score - a.score

\* Array.prototype.sort, which is stable: every entry goes behind the
\* entries before it in the list that the comparator does not put after it.
RECURSIVE sort(_)
sort(q) ==
    IF q = <<>> THEN <<>>
    ELSE LET front == sort(SubSeq(q, 1, Len(q) - 1))
             e == q[Len(q)]
             k == Cardinality({i \in 1..Len(front) : compare(front[i], e) <= 0})
         IN  SubSeq(front, 1, k) \o <<e>> \o SubSeq(front, k + 1, Len(front))

\* runMatching leaving the entries in list order.
runMatchingUnsorted(patient, donors, clock) ==
    results(patient, donors, clock)

\* The list runMatching puts on screen.
runMatching(patient, donors, clock) ==
    sort(results(patient, donors, clock))

\* ---------------------------------------------------------------- routes
\* A route submits one transaction and answers 200 or, when the contract
\* returned an error, 500.  last is the call most recently answered.
Call(fn, id, err) == [fn |-> fn, id |-> id, err |-> err]

Commit(fn, id, res) ==
    /\ store' = res.st
    /\ last' = Call(fn, id, res.err)

\* A request sent to a route by anyone but the sessions modelled below.
Submit(fn, id, res) ==
    /\ ops < MaxOps
    /\ ops' = ops + 1
    /\ Commit(fn, id, res)

PostInit ==
    /\ \E t \in CreatedAtIn : Submit("InitLedger", "", InitLedger(store, t))
    /\ UNCHANGED <<now, ui, tx, resp>>

DeleteClear ==
    /\ Submit("ClearLedger", "", ClearLedger(store))
    /\ UNCHANGED <<now, ui, tx, resp>>

\* POST /api/patients with the blood type and the hla drawn from the sets.
PostPatientsIn(bloods, hlas) ==
    /\ \E id \in PatKeys, b \in bloods, h \in hlas, o \in NeedIn,
          ipfs \in IpfsIn, hosp \in HospIn, t \in CreatedAtIn :
            Submit("CreatePatient", id,
                   CreatePatient(store, id, b, h, o, ipfs, hosp, t))
    /\ UNCHANGED <<now, ui, tx, resp>>

PostPatients == PostPatientsIn(PatBloodIn, HlaIn)

\* POST /api/donors with the id, the blood type, the hla and the organ
\* list drawn from the sets.
PostDonorsIn(ids, bloods, hlas, organLists) ==
    /\ \E id \in ids, b \in bloods, h \in hlas,
          organs \in organLists, ipfs \in IpfsIn, consent \in ConsentIn :
            Submit("CreateDonor", id,
                   CreateDonor(store, id, b, h, organs, ipfs, consent))
    /\ UNCHANGED <<now, ui, tx, resp>>

PostDonors == PostDonorsIn(DonIdIn, DonBloodIn, HlaIn, OrganListsIn)

PostDonorVerify ==
    /\ \E id \in DonIdIn, hosp \in HospIn, status \in DecisionIn :
            Submit("VerifyDonor", id, VerifyDonor(store, id, hosp, status))
    /\ UNCHANGED <<now, ui, tx, resp>>

\* POST /api/matches with the id drawn from ids.
PostMatchesIn(ids) ==
    /\ \E id \in ids, p \in PatKeys, d \in DonIdIn,
          o \in NeedIn, hosp \in HospIn :
            Submit("CreateMatch", id, CreateMatch(store, id, p, d, o, hosp))
    /\ UNCHANGED <<now, ui, tx, resp>>

PostMatches == PostMatchesIn(MatchKeys \cup PatKeys)

PatchPatientStatus ==
    /\ \E id \in PatKeys, status \in StatusIn :
            Submit("UpdatePatientStatus", id,
                   UpdatePatientStatus(store, id, status))
    /\ UNCHANGED <<now, ui, tx, resp>>

PatchDonorStatus ==
    /\ \E id \in DonIdIn, o \in OrganIn :
            Submit("UpdateDonorStatus", id, UpdateDonorStatus(store, id, o))
    /\ UNCHANGED <<now, ui, tx, resp>>

\* ---------------------------------------------------------------- client
\* One browser session: the App's patients and donors lists, and the
\* matching screen's selected patient and approval in progress.  The
\* matching screen is a component declared inside App, so a new App state
\* (a refreshed list) mounts it anew with nothing selected.
NoSel == [id |-> ""]
NoTx ==
    [pc |-> "idle", fn |-> "", id |-> "", arg |-> "", seen |-> <<>>,
     wr |-> <<>>, out |-> ""]
NoResp == [kind |-> "none", body |-> <<>>]
NoAlloc == [matchId |-> "", patientId |-> "", donorId |-> "", organ |-> ""]
UiInit ==
    [pc |-> "idle", patients |-> <<>>, donors |-> <<>>, sel |-> NoSel,
     cur |-> NoAlloc, note |-> "", done |-> NoAlloc]

\* Date.now() moves on.
Tick ==
    /\ now < MaxNow
    /\ now' = now + 1
    /\ UNCHANGED <<store, last, ops, ui, tx, resp>>

\* fetchAllData: both lists are read afresh (each by one evaluateTransaction;
\* they are taken here at one instant).
fetchAllData(c) ==
    /\ ui[c].pc = "idle"
    /\ ui' = [ui EXCEPT ![c].patients = GetAllPatients(store),
                        ![c].donors = GetAllDonors(store),
                        ![c].sel = NoSel]
    /\ ui'[c] # ui[c]
    /\ UNCHANGED <<store, last, ops, now, tx, resp>>

\* A click on a row of the waiting list.
SelectPatient(c) ==
    /\ ui[c].pc = "idle"
    /\ \E i \in 1..Len(ui[c].patients) :
        /\ ui[c].patients[i].rec.status = "WAITING"
        /\ ui[c].sel # ui[c].patients[i]
        /\ ui' = [ui EXCEPT ![c].sel = ui[c].patients[i]]
    /\ UNCHANGED <<store, last, ops, now, tx, resp>>

\* The entries on screen for the selected patient.
matches(c) == runMatching(ui[c].sel.rec, ui[c].donors, now)

\* handleApproveMatch up to the answer to POST /matches.  The button is
\* there for compatible entries only.  failed: submitTransaction threw
\* (the route's catch answers 500) and nothing was committed.
ApprovePost(c) ==
    /\ ui[c].pc = "idle"
    /\ ui[c].sel # NoSel
    /\ \E m \in Range(matches(c)), failed \in BOOLEAN :
        LET cur == [matchId |-> MatchKey(now), patientId |-> ui[c].sel.id,
                    donorId |-> m.donorId,
                    organ |-> ui[c].sel.rec.organNeeded]
        IN  /\ m.compatible
            /\ IF failed
               THEN /\ ui' = [ui EXCEPT ![c].note = "error", ![c].sel = NoSel]
                    /\ UNCHANGED <<store, last>>
               ELSE /\ Commit("CreateMatch", cur.matchId,
                              CreateMatch(store, cur.matchId, cur.patientId,
                                          cur.donorId, cur.organ, "HOSP-APOLLO"))
                    /\ ui' = [ui EXCEPT ![c].pc = "patch", ![c].cur = cur]
    /\ UNCHANGED <<ops, now, tx, resp>>

\* PATCH /donors/:id/status; the answer is not looked at.
ApprovePatch(c) ==
    /\ ui[c].pc = "patch"
    /\ \E failed \in BOOLEAN :
        IF failed THEN UNCHANGED <<store, last>>
        ELSE Commit("UpdateDonorStatus", ui[c].cur.donorId,
                    UpdateDonorStatus(store, ui[c].cur.donorId, ui[c].cur.organ))
    /\ ui' = [ui EXCEPT ![c].pc = "refresh"]
    /\ UNCHANGED <<ops, now, tx, resp>>

\* The lists are read again, the success notification is shown, the
\* screen leaves processing with no patient selected.
ApproveRefresh(c) ==
    /\ ui[c].pc = "refresh"
    /\ ui' = [ui EXCEPT ![c].pc = "idle",
                        ![c].patients = GetAllPatients(store),
                        ![c].donors = GetAllDonors(store),
                        ![c].note = "committed",
                        ![c].done = ui[c].cur,
                        ![c].cur = NoAlloc,
                        ![c].sel = NoSel]
    /\ UNCHANGED <<store, last, ops, now, tx, resp>>

Init ==
    /\ store = [k \in Keys |-> NoRec]
    /\ last = Call("", "", "")
    /\ ops = 0
    /\ now = 1
    /\ ui = [c \in Clients |-> UiInit]
    /\ tx = [c \in Clients |-> NoTx]
    /\ resp = NoResp

Next ==
    \/ PostInit
    \/ DeleteClear
    \/ PostPatients
    \/ PostDonors
    \/ PostDonorVerify
    \/ PostMatches
    \/ PatchPatientStatus
    \/ PatchDonorStatus
    \/ Tick
    \/ fetchAllData("c1")
    \/ SelectPatient("c1")
    \/ ApprovePost("c1")
    \/ ApprovePatch("c1")
    \/ ApproveRefresh("c1")

Spec == Init /\ [][Next]_vars

\* ---------------------------------------------------------------- two sessions
\* Two sessions approving at once, and no other caller.  The ledger starts
\* as two CreatePatient, a CreateDonor and a VerifyDonor leave an empty one:
\* two waiting patients who need a kidney and one verified donor whose only
\* organ is a kidney.
RaceStore ==
    LET s0 == [k \in Keys |-> NoRec]
        s1 == CreatePatient(s0, "PAT-001", "A+", "A2, A24, B35, B44, DR1, DR4",
                            "Kidney", "QmUpload", "HOSP-APOLLO", 0).st
        s2 == CreatePatient(s1, "PAT-002", "A+", "A2, A24, B35, B44, DR1, DR4",
                            "Kidney", "QmUpload", "HOSP-APOLLO", 0).st
        s3 == CreateDonor(s2, "DON-101", "O-", "A2, A24, B35, B44, DR1, DR4",
                          <<"Kidney">>, "QmUpload", "0xconsent").st
    IN  VerifyDonor(s3, "DON-101", "HOSP-APOLLO", "VERIFIED").st

InitRace ==
    /\ store = RaceStore
    /\ last = Call("VerifyDonor", "DON-101", "")
    /\ ops = 0
    /\ now = 1
    /\ ui = [c \in Clients |-> UiInit]
    /\ tx = [c \in Clients |-> NoTx]
    /\ resp = NoResp

NextRace ==
    \/ Tick
    \/ \E c \in Clients :
        \/ fetchAllData(c)
        \/ SelectPatient(c)
        \/ ApprovePost(c)
        \/ ApprovePatch(c)
        \/ ApproveRefresh(c)

SpecRace == InitRace /\ [][NextRace]_vars

\* ---------------------------------------------------------------- approval to its end
\* handleApproveMatch with each wait for an answer as a state of its own.
\* pc "post": isProcessing is true, the POST /matches request (its match id
\* taken from the clock at the click) is out and not yet settled.
ApproveStart(c) ==
    /\ ui[c].pc = "idle"
    /\ ui[c].sel # NoSel
    /\ \E m \in Range(matches(c)) :
        /\ m.compatible
        /\ ui' = [ui EXCEPT ![c].pc = "post",
                    ![c].cur = [matchId |-> MatchKey(now),
                                patientId |-> ui[c].sel.id,
                                donorId |-> m.donorId,
                                organ |-> ui[c].sel.rec.organNeeded]]
    /\ UNCHANGED <<store, last, ops, now, tx, resp>>

\* How an awaited fetch settles: answered 200, answered not OK (the
\* route's catch: 500, nothing committed), or rejected (no answer came).
Settled == {"ok", "not ok", "threw"}

\* The catch block and the two statements after it.
Caught(c) ==
    ui' = [ui EXCEPT ![c].pc = "idle", ![c].note = "error",
                     ![c].cur = NoAlloc, ![c].sel = NoSel]

\* The POST settles and the failure is caught, but the handler ends in the
\* catch block without the two statements after it.
ApproveAnswerNoReset(c) ==
    /\ ui[c].pc = "post"
    /\ \E how \in Settled :
        IF how = "ok"
        THEN /\ Commit("CreateMatch", ui[c].cur.matchId,
                       CreateMatch(store, ui[c].cur.matchId,
                                   ui[c].cur.patientId, ui[c].cur.donorId,
                                   ui[c].cur.organ, "HOSP-APOLLO"))
             /\ ui' = [ui EXCEPT ![c].pc = "patch"]
        ELSE /\ ui' = [ui EXCEPT ![c].pc = "caught", ![c].note = "error"]
             /\ UNCHANGED <<store, last>>
    /\ UNCHANGED <<ops, now, tx, resp>>

\* The POST settles: on 200 the flow goes on to the PATCH, otherwise
\* (matchResponse.ok false, or fetch rejected) the error is caught.
ApproveAnswer(c) ==
    /\ ui[c].pc = "post"
    /\ \E how \in Settled :
        IF how = "ok"
        THEN /\ Commit("CreateMatch", ui[c].cur.matchId,
                       CreateMatch(store, ui[c].cur.matchId,
                                   ui[c].cur.patientId, ui[c].cur.donorId,
                                   ui[c].cur.organ, "HOSP-APOLLO"))
             /\ ui' = [ui EXCEPT ![c].pc = "patch"]
        ELSE /\ Caught(c)
             /\ UNCHANGED <<store, last>>
    /\ UNCHANGED <<ops, now, tx, resp>>

\* The PATCH or a request of the refresh is rejected.
ApproveThrow(c) ==
    /\ ui[c].pc \in {"patch", "refresh"}
    /\ Caught(c)
    /\ UNCHANGED <<store, last, ops, now, tx, resp>>

\* Every request the handler awaits settles: the route answers from its
\* try or from its catch, and a request that cannot be sent is rejected.
Settle(c) ==
    \/ ApproveAnswer(c)
    \/ ApprovePatch(c)
    \/ ApproveRefresh(c)
    \/ ApproveThrow(c)

\* The clock stands still here: it only numbers the match.
NextLive ==
    \E c \in Clients :
        \/ fetchAllData(c)
        \/ SelectPatient(c)
        \/ ApproveStart(c)
        \/ ApproveAnswer(c)
        \/ ApprovePatch(c)
        \/ ApproveRefresh(c)
        \/ ApproveThrow(c)

SpecLive ==
    InitRace /\ [][NextLive]_vars /\ \A c \in Clients : WF_vars(Settle(c))

\* ---------------------------------------------------------------- hospital routes
\* The hospital routes and the contract's authentication, with the one
\* other route that can store a document under a hospital key whatever is
\* there: POST /api/matches with a hospital id as the match id.  Read as a
\* Hospital, such a document has no password hash and is not active.
LoginIdIn == {"HOSP-APOLLO", "HOSP-AIIMS"}
HashIn ==
    {"15da1cc6ebf7b7b13225c0d6d89e8cab4d40d4672c226618f1e74e5515685f2c",
     "15DA1CC6EBF7B7B13225C0D6D89E8CAB4D40D4672C226618F1E74E5515685F2C",
     "7810c7831b4fcefb7fb887bde3ef976b9d442d39216b155c84f1f67b38f49229",
     ""}

PostInitHospitals ==
    /\ Submit("InitHospitals", "", InitHospitals(store))
    /\ UNCHANGED <<now, ui, tx, resp>>

\* GET /api/hospitals: the listing without the password hashes.
GetHospitals ==
    LET hospitals == GetAllHospitals(store)
        safeHospitals == [i \in 1..Len(hospitals) |->
            [id |-> hospitals[i].id, name |-> hospitals[i].name,
             location |-> hospitals[i].location,
             isActive |-> hospitals[i].isActive]]
    IN  /\ last' = Call("GetAllHospitals", "", "")
        /\ resp' = [kind |-> "hospitals", body |-> safeHospitals]
        /\ UNCHANGED <<store, ops, now, ui, tx>>

\* AuthenticateHospital evaluated with these arguments; nothing is stored.
QueryAuthenticateWith(id, passwordHash) ==
    LET r == AuthenticateHospital(store, id, passwordHash) IN
    /\ last' = Call("AuthenticateHospital", id, r.err)
    /\ resp' = [kind |-> "profile", body |-> r.body]
    /\ UNCHANGED <<store, ops, now, ui, tx>>

QueryAuthenticate ==
    \E id \in LoginIdIn, passwordHash \in HashIn :
        QueryAuthenticateWith(id, passwordHash)

\* POST /api/auth/login: 400 without an id or a hash, 401 when the contract
\* returns an error, else 200 with the contract's answer.
PostLoginWith(hospitalId, passwordHash) ==
    LET r == AuthenticateHospital(store, hospitalId, passwordHash) IN
    /\ IF hospitalId = "" \/ passwordHash = ""
       THEN /\ last' = Call("login", hospitalId, "400")
            /\ resp' = [kind |-> "login", body |-> <<>>]
       ELSE /\ last' = Call("login", hospitalId,
                            IF r.err # "" THEN "401" ELSE "")
            /\ resp' = [kind |-> "login", body |-> r.body]
    /\ UNCHANGED <<store, ops, now, ui, tx>>

PostLogin ==
    \E hospitalId \in LoginIdIn, passwordHash \in HashIn :
        PostLoginWith(hospitalId, passwordHash)

\* GET /api/debug/hospital/:id: GetHospital's answer as it is.
GetDebugHospital ==
    /\ \E id \in LoginIdIn :
        LET got == GetHospital(store, id) IN
        IF got.ok
        THEN /\ last' = Call("GetHospital", id, "")
             /\ resp' = [kind |-> "hospital",
                         body |-> <<HospitalJSON(id, got.val)>>]
        ELSE /\ last' = Call("GetHospital", id, "NotFound")
             /\ resp' = [kind |-> "hospital", body |-> <<>>]
    /\ UNCHANGED <<store, ops, now, ui, tx>>

NextAuth ==
    \/ PostInitHospitals
    \/ DeleteClear
    \/ PostInit
    \/ PostMatchesIn({"HOSP-APOLLO", MatchKey(1)})
    \/ GetHospitals
    \/ QueryAuthenticate
    \/ PostLogin
    \/ GetDebugHospital

SpecAuth == Init /\ [][NextAuth]_vars

\* ---------------------------------------------------------------- matching screen
\* The matching screen over every patient and donor of these sets: the
\* ledger holds one patient, as CreatePatient stores it, and one donor, as
\* CreateDonor stores it and VerifyDonor may have decided it.
ScoreOrganIn == {"Kidney", "Liver"}
ScoreOrganListsIn == UNION {[1..n -> ScoreOrganIn] : n \in 0..MaxOrgans}

ScoreStore(pb, need, db, organs, decision) ==
    LET s0 == [k \in Keys |-> NoRec]
        s1 == CreatePatient(s0, "PAT-001", pb, "A2, A24, B35, B44, DR1, DR4",
                            need, "QmUpload", "HOSP-APOLLO", 0).st
        s2 == CreateDonor(s1, "DON-101", db, "A2, A24, B35, B44, DR1, DR4",
                          organs, "QmUpload", "0xconsent").st
    IN  VerifyDonor(s2, "DON-101", "HOSP-APOLLO", decision).st

InitScore ==
    /\ \E pb \in BloodTypes, need \in ScoreOrganIn, db \in BloodTypes,
          organs \in ScoreOrganListsIn, decision \in DecisionIn :
        /\ store = ScoreStore(pb, need, db, organs, decision)
        /\ last = Call("VerifyDonor", "DON-101",
                       IF decision \in {"VERIFIED", "REJECTED"} THEN ""
                       ELSE "InvalidStatus")
    /\ ops = 0
    /\ now = 1
    /\ ui = [c \in Clients |-> UiInit]
    /\ tx = [c \in Clients |-> NoTx]
    /\ resp = NoResp

NextScore ==
    \/ fetchAllData("c1")
    \/ SelectPatient("c1")

SpecScore == InitScore /\ [][NextScore]_vars

\* ---------------------------------------------------------------- ranking
\* The ranked list over three donors.  The ledger holds one A+ patient who
\* needs a kidney, stamped by the peer 30 or 15 days before the client's
\* clock starts, at its start, or after it, and three donors who list a
\* kidney, each verified or rejected.
RankPatHlaIn == {"", "A1, A1", "A2, A24, B35, B44, DR1, DR4"}
RankCreatedAtIn == {-29, -14, 1, 3}
RankDonorsIn ==
    <<[bloodType : {"A+", "O-"},
       hla : {"", "A1", "A2, A24, B35, B44, DR1, DR4"},
       decision : {"VERIFIED", "REJECTED"}],
      [bloodType : {"A+", "B+"}, hla : {"A1", "A2,B35 "},
       decision : {"VERIFIED", "REJECTED"}],
      [bloodType : {"A+"}, hla : {"A1", "A2, A24, B35, B44, DR1, DR4"},
       decision : {"VERIFIED"}]>>

RankStore(hla, createdAt, d) ==
    LET Registered(s, i) ==
            VerifyDonor(CreateDonor(s, DonKeySeq[i], d[i].bloodType, d[i].hla,
                                    <<"Kidney">>, "QmUpload", "0xconsent").st,
                        DonKeySeq[i], "HOSP-APOLLO", d[i].decision).st
        s0 == [k \in Keys |-> NoRec]
        s1 == CreatePatient(s0, "PAT-001", "A+", hla, "Kidney", "QmUpload",
                            "HOSP-APOLLO", createdAt).st
    IN  Registered(Registered(Registered(s1, 1), 2), 3)

InitRank ==
    /\ \E hla \in RankPatHlaIn, createdAt \in RankCreatedAtIn,
          d1 \in RankDonorsIn[1], d2 \in RankDonorsIn[2],
          d3 \in RankDonorsIn[3] :
            store = RankStore(hla, createdAt, <<d1, d2, d3>>)
    /\ last = Call("VerifyDonor", "DON-103", "")
    /\ ops = 0
    /\ now = 1
    /\ ui = [c \in Clients |-> UiInit]
    /\ tx = [c \in Clients |-> NoTx]
    /\ resp = NoResp

NextRank ==
    \/ Tick
    \/ fetchAllData("c1")
    \/ SelectPatient("c1")

SpecRank == InitRank /\ [][NextRank]_vars

\* ---------------------------------------------------------------- two creates
\* POST /api/patients from two callers at once.  submitTransaction has the
\* peer run CreatePatient against the world state as it stands (the reads
\* and the writes of the run are recorded, nothing is stored), and then has
\* the run ordered and committed: at commit the writes are stored if every
\* key the run read is still as it was read, and otherwise the run is
\* thrown away and submitTransaction throws a commit error.
CreateBloodIn == {"A+", "O-"}
CreateHospIn == {"HOSP-APOLLO", "HOSP-AIIMS"}

\* One run of CreatePatient that neither reads nor checks the id.
TxCreatePatientBlind(s, id, bloodType, hla, organNeeded, ipfsHash, hospitalId, createdAt) ==
    [reads |-> {}, writes |-> {id},
     res |-> CreatePatientUnchecked(s, id, bloodType, hla, organNeeded,
                                    ipfsHash, hospitalId, createdAt)]

\* One run of CreatePatient: the keys it reads (RecordExists: GetState of
\* id), the keys it writes (PutState of id) and what it returns.
TxCreatePatient(s, id, bloodType, hla, organNeeded, ipfsHash, hospitalId, createdAt) ==
    LET res == CreatePatient(s, id, bloodType, hla, organNeeded, ipfsHash,
                             hospitalId, createdAt)
    IN  [reads |-> {id}, writes |-> IF res.err = "" THEN {id} ELSE {},
         res |-> res]

\* The run at the peer.  An error returned by the contract ends the
\* request there (500 with the contract's message).
SubmitEndorse(c) ==
    /\ tx[c].pc = "idle"
    /\ \E id \in PatKeys, b \in CreateBloodIn, h \in HlaIn, o \in NeedIn,
          ipfs \in IpfsIn, hosp \in CreateHospIn, t \in CreatedAtIn :
        LET run == TxCreatePatient(store, id, b, h, o, ipfs, hosp, t) IN
        IF run.res.err # ""
        THEN /\ tx' = [tx EXCEPT ![c] =
                        [NoTx EXCEPT !.pc = "done", !.fn = "CreatePatient",
                                     !.id = id, !.out = run.res.err]]
             /\ last' = Call("CreatePatient", id, run.res.err)
        ELSE /\ tx' = [tx EXCEPT ![c] =
                        [pc |-> "endorsed", fn |-> "CreatePatient",
                         id |-> id, arg |-> "",
                         seen |-> [k \in run.reads |-> store[k]],
                         wr |-> [k \in run.writes |-> run.res.st[k]],
                         out |-> ""]]
             /\ UNCHANGED last
    /\ UNCHANGED <<store, ops, now, ui, resp>>

\* What a run's read of a key stands for once another run that wrote the
\* key has been committed: the version read is no longer the key's version,
\* whatever value was written.
Overwritten == [ZeroRec EXCEPT !.docType = "<overwritten>"]

\* The commit of an endorsed run, and the answer to the request.
SubmitCommit(c) ==
    /\ tx[c].pc = "endorsed"
    /\ LET valid == \A k \in DOMAIN tx[c].seen : store[k] = tx[c].seen[k]
           out == IF valid THEN "" ELSE "MVCC_READ_CONFLICT"
           aged(o) == [k \in DOMAIN tx[o].seen |->
                          IF k \in DOMAIN tx[c].wr THEN Overwritten
                          ELSE tx[o].seen[k]]
       IN  /\ store' = IF valid
                       THEN [k \in DOMAIN store |->
                               IF k \in DOMAIN tx[c].wr THEN tx[c].wr[k]
                               ELSE store[k]]
                       ELSE store
           /\ last' = Call(tx[c].fn, tx[c].id, out)
           /\ tx' = [o \in Clients |->
                       IF o = c
                       THEN [tx[c] EXCEPT !.pc = "done",
                                          !.out = IF valid THEN "ok" ELSE out]
                       ELSE IF valid /\ tx[o].pc = "endorsed"
                       THEN [tx[o] EXCEPT !.seen = aged(o)]
                       ELSE tx[o]]
    /\ UNCHANGED <<ops, now, ui, resp>>

NextCreate ==
    \E c \in Clients :
        \/ SubmitEndorse(c)
        \/ SubmitCommit(c)

SpecCreate == Init /\ [][NextCreate]_vars

\* ---------------------------------------------------------------- verify and remove
\* POST /api/donors/:id/verify and PATCH /api/donors/:id/status from two
\* callers at once.  The ledger starts as one CreateDonor leaves an empty
\* one: a donor with a kidney and a liver, waiting for verification.
RaceDonIdIn == {"DON-101", "DON-102"}

DonorRaceStore ==
    CreateDonor([k \in Keys |-> NoRec], "DON-101", "O-",
                "A2, A24, B35, B44, DR1, DR4", <<"Kidney", "Liver">>,
                "QmUpload", "0xconsent").st

InitDonorRace ==
    /\ store = DonorRaceStore
    /\ last = Call("CreateDonor", "DON-101", "")
    /\ ops = 0
    /\ now = 1
    /\ ui = [c \in Clients |-> UiInit]
    /\ tx = [c \in Clients |-> NoTx]
    /\ resp = NoResp

\* One run of VerifyDonor: the key it reads (GetDonor: GetState of
\* donorId), the key it writes (PutState of donorId) and what it returns.
TxVerifyDonor(s, donorId, hospitalId, status) ==
    LET res == VerifyDonor(s, donorId, hospitalId, status)
    IN  [reads |-> {donorId},
         writes |-> IF res.err = "" THEN {donorId} ELSE {}, res |-> res]

\* One run of UpdateDonorStatus, likewise.
TxUpdateDonorStatus(s, id, organToRemove) ==
    LET res == UpdateDonorStatus(s, id, organToRemove)
    IN  [reads |-> {id}, writes |-> IF res.err = "" THEN {id} ELSE {},
         res |-> res]

\* The run at the peer of a call fn(id, arg).  An error returned by the
\* contract ends the request there.
Endorse(c, fn, id, arg, run) ==
    /\ tx[c].pc = "idle"
    /\ IF run.res.err # ""
       THEN /\ tx' = [tx EXCEPT ![c] =
                       [NoTx EXCEPT !.pc = "done", !.fn = fn, !.id = id,
                                    !.arg = arg, !.out = run.res.err]]
            /\ last' = Call(fn, id, run.res.err)
       ELSE /\ tx' = [tx EXCEPT ![c] =
                       [pc |-> "endorsed", fn |-> fn, id |-> id, arg |-> arg,
                        seen |-> [k \in run.reads |-> store[k]],
                        wr |-> [k \in run.writes |-> run.res.st[k]],
                        out |-> ""]]
            /\ UNCHANGED last
    /\ UNCHANGED <<store, ops, now, ui, resp>>

VerifyEndorse(c) ==
    \E id \in RaceDonIdIn, hosp \in HospIn, status \in DecisionIn :
        Endorse(c, "VerifyDonor", id, status,
                TxVerifyDonor(store, id, hosp, status))

StatusEndorse(c) ==
    \E id \in RaceDonIdIn, o \in OrganIn :
        Endorse(c, "UpdateDonorStatus", id, o,
                TxUpdateDonorStatus(store, id, o))

NextDonorRace ==
    \E c \in Clients :
        \/ VerifyEndorse(c)
        \/ StatusEndorse(c)
        \/ SubmitCommit(c)

SpecDonorRace == InitDonorRace /\ [][NextDonorRace]_vars

\* ---------------------------------------------------------------- registrations
\* Registrations over wider inputs: two blood types, an hla that is empty
\* or not, and organ lists that are null, empty or not.
RegBloodIn == {"A+", "O-"}
RegHlaIn == {"", "A1, B8"}
RegOrganListsIn ==
    {NilSlice, <<>>, <<"Kidney">>, <<"Kidney", "Liver">>,
     <<"Kidney", "Liver", "Kidney">>}
\* The ids donors are registered under: CreateDonor takes any id that
\* holds no record, a patient key too.
RegDonIdIn == {"DON-101", "PAT-002"}

NextRegister ==
    \/ PostPatientsIn(RegBloodIn, RegHlaIn)
    \/ PostDonorsIn(RegDonIdIn, RegBloodIn, RegHlaIn, RegOrganListsIn)
    \/ PostDonorVerify
    \/ PatchDonorStatus
    \/ DeleteClear

SpecRegister == Init /\ [][NextRegister]_vars

\* ---------------------------------------------------------------- claims
IsDoc(s, k, docType) == s[k] # NoRec /\ s[k].docType = docType
\* A step wrote a match document under key k.
MatchWritten(k) == IsDoc(store', k, "match") /\ store'[k] # store[k]
\* Session c got 200 from POST /matches in this step.
PostOk(c) == ui[c].pc = "idle" /\ ui'[c].pc = "patch"

\* C1: for every stored donor and every organ type at most one Match record
\* names them.
C1_NoOrganPromisedTwice ==
    \A k1 \in Keys, k2 \in Keys :
        ( /\ IsDoc(store, k1, "match") /\ IsDoc(store, k2, "match")
          /\ store[k1].donorId \in Keys
          /\ IsDoc(store, store[k1].donorId, "donor")
          /\ store[k1].donorId = store[k2].donorId
          /\ store[k1].organType = store[k2].organType ) => k1 = k2

\* C2: a Match record is written only while the donor it names is stored
\* with verificationStatus VERIFIED.
C2_OnlyVerifiedAllocated ==
    [][\A k \in Keys : MatchWritten(k) =>
          /\ store'[k].donorId \in Keys
          /\ store[store'[k].donorId] # NoRec
          /\ AsDonor(store[store'[k].donorId]).verificationStatus = "VERIFIED"
      ]_vars

\* C3: an approval creates its Match only if, in the patient and donor
\* records as stored when the Match is written, the patient's organ is among
\* the donor's available organs and the donor's blood type is receivable by
\* the patient.
C3_AllocateRevalidates ==
    [][\A c \in Clients : PostOk(c) =>
          LET cur == ui'[c].cur IN
          ( /\ IsDoc(store, cur.patientId, "patient")
            /\ IsDoc(store, cur.donorId, "donor") ) =>
              LET patient == AsPatient(store[cur.patientId])
                  donor == AsDonor(store[cur.donorId])
              IN  /\ isOrganCompatible(patient, donor)
                  /\ isBloodCompatible(patient, donor)
      ]_vars

\* C4: a Match record is written only when both the patient and the donor
\* it names are stored.
C4_MatchNamesExistingRecords ==
    [][\A k \in Keys : MatchWritten(k) =>
          /\ store'[k].patientId \in Keys /\ store'[k].donorId \in Keys
          /\ store[store'[k].patientId] # NoRec
          /\ store[store'[k].donorId] # NoRec
      ]_vars

\* C5: of two sessions approving the same single-organ donor, at most one is
\* told its match was committed.
C5_OneConcurrentAllocationWins ==
    \A c1 \in Clients, c2 \in Clients :
        ( /\ c1 # c2
          /\ ui[c1].done # NoAlloc /\ ui[c2].done # NoAlloc
          /\ ui[c1].done.donorId = ui[c2].done.donorId ) =>
            ui[c1].done.organ # ui[c2].done.organ

\* C6: no step adds an organ to the organsAvailable of a donor key that holds
\* a record before and after the step.
C6_OrgansShrinkOnly ==
    [][\A k \in DonKeys : (store[k] # NoRec /\ store'[k] # NoRec) =>
          Range(AsDonor(store'[k]).organsAvailable)
              \subseteq Range(AsDonor(store[k]).organsAvailable)
      ]_vars

\* C7: no stored donor lists the same organ twice.
C7_NoDuplicateOrgans ==
    \A k \in Keys : IsDoc(store, k, "donor") =>
        \A i \in DOMAIN store[k].organsAvailable,
           j \in DOMAIN store[k].organsAvailable :
            store[k].organsAvailable[i] = store[k].organsAvailable[j] => i = j

\* C8: once a session has been told that organ o of donor d is committed,
\* the entries it shows for another patient who needs o never mark d
\* compatible.
C8_AllocatedDonorNotEligible ==
    \A c \in Clients :
        ( /\ ui[c].pc = "idle"
          /\ ui[c].done # NoAlloc
          /\ ui[c].sel # NoSel
          /\ ui[c].sel.id # ui[c].done.patientId
          /\ ui[c].sel.rec.organNeeded = ui[c].done.organ ) =>
            \A j \in 1..Len(ui[c].donors) :
                matches(c)[j].donorId = ui[c].done.donorId
                    => ~matches(c)[j].compatible

\* C9: a stored patient with status MATCHED is named by a stored Match.
C9_MatchedOnlyByAllocation ==
    \A k \in Keys :
        (IsDoc(store, k, "patient") /\ store[k].status = "MATCHED") =>
            \E m \in Keys : IsDoc(store, m, "match") /\ store[m].patientId = k

C11_CreateRejectsStoredId ==
    [][( /\ ops' = ops + 1
         /\ last'.fn \in {"CreatePatient", "CreateDonor"}
         /\ store[last'.id] # NoRec )
            => (last'.err = "AlreadyExists" /\ store' = store)
      ]_vars

\* C11 witness: a create was answered AlreadyExists, and the id it named
\* holds a record.
C11_Witness ==
    /\ last.fn \in {"CreatePatient", "CreateDonor"}
    /\ last.err = "AlreadyExists"
    /\ store[last.id] # NoRec

\* Both callers have their answer, and they named the same id.
BothCreated(c1, c2) ==
    /\ c1 # c2
    /\ tx[c1].pc = "done" /\ tx[c2].pc = "done"
    /\ tx[c1].id = tx[c2].id

\* C12: of two creates of the same id, however their reads and writes
\* interleave, one succeeds, the other is answered AlreadyExists, and the
\* stored record is the one the successful call wrote.
C12_RacingCreateAlreadyExists ==
    \A c1 \in Clients, c2 \in Clients :
        (BothCreated(c1, c2) /\ tx[c1].out = "ok") =>
            /\ tx[c2].out = "AlreadyExists"
            /\ store[tx[c1].id] = tx[c1].wr[tx[c1].id]

\* C12 as amended: the other call fails, with AlreadyExists when it ran
\* after the first was committed and with a commit conflict when the two
\* overlapped.
C12_RacingCreateOneWins ==
    \A c1 \in Clients, c2 \in Clients :
        (BothCreated(c1, c2) /\ tx[c1].out = "ok") =>
            /\ tx[c2].out \in {"AlreadyExists", "MVCC_READ_CONFLICT"}
            /\ store[tx[c1].id] = tx[c1].wr[tx[c1].id]

\* C12 witness: two overlapping creates of one id have been answered, one
\* with success and one with the commit conflict.
C12_Witness ==
    \E c1 \in Clients, c2 \in Clients :
        /\ BothCreated(c1, c2)
        /\ tx[c1].out = "ok" /\ tx[c2].out = "MVCC_READ_CONFLICT"
        /\ store[tx[c1].id] = tx[c1].wr[tx[c1].id]

\* C13: once a Match is stored under a match id, no step other than the
\* bulk clear changes the record under that id.
C13_MatchCreateOnce ==
    [][\A k \in MatchKeys :
          (IsDoc(store, k, "match") /\ ~DeleteClear) => store'[k] = store[k]
      ]_vars

\* C14: a VerifyDonor naming an id with no record is answered NotFound, one
\* naming a stored donor with a status other than VERIFIED and REJECTED is
\* answered with the invalid-status error, and both leave the store as it
\* was.
C14_VerifyDonorFailures ==
    [][\A id \in DonIdIn, hosp \in HospIn, status \in DecisionIn :
          Submit("VerifyDonor", id, VerifyDonor(store, id, hosp, status)) =>
            /\ store[id] = NoRec =>
                    (last'.err = "NotFound" /\ store' = store)
            /\ (store[id] # NoRec /\ status \notin {"VERIFIED", "REJECTED"})
                    => (last'.err = "InvalidStatus" /\ store' = store)
      ]_vars

\* C14 witness: a VerifyDonor naming a stored donor was answered with the
\* invalid-status error.
C14_Witness ==
    /\ last.fn = "VerifyDonor" /\ last.err = "InvalidStatus"
    /\ IsDoc(store, last.id, "donor")

\* C15: a VerifyDonor answered without error leaves the donor with the
\* status and the hospital passed and every other field as it was, and
\* leaves every other record as it was.
C15_VerifyDonorFrame ==
    [][\A id \in DonIdIn, hosp \in HospIn, status \in DecisionIn :
          ( /\ Submit("VerifyDonor", id, VerifyDonor(store, id, hosp, status))
            /\ last'.err = "" ) =>
            /\ store'[id] = [store[id] EXCEPT !.verificationStatus = status,
                                              !.verifiedBy = hosp]
            /\ \A k \in Keys \ {id} : store'[k] = store[k]
      ]_vars

\* C15 witness: a VerifyDonor was answered without error for a donor that
\* has organs and a consent hash, and other records are stored.
C15_Witness ==
    /\ last.fn = "VerifyDonor" /\ last.err = ""
    /\ IsDoc(store, last.id, "donor")
    /\ store[last.id].verificationStatus \in {"VERIFIED", "REJECTED"}
    /\ store[last.id].verifiedBy \in HospIn
    /\ store[last.id].organsAvailable # <<>>
    /\ store[last.id].consentHash # ""
    /\ \E k \in Keys \ {last.id} : store[k] # NoRec

\* C16: a stored donor whose verificationStatus is REJECTED is never
\* VERIFIED after a later step.
C16_RejectedIsTerminal ==
    [][\A k \in DonKeys :
          (IsDoc(store, k, "donor") /\ store[k].verificationStatus = "REJECTED")
            => ~(IsDoc(store', k, "donor")
                    /\ store'[k].verificationStatus = "VERIFIED")
      ]_vars

\* The record under id is a hospital's, active, with this password hash.
Authentic(id, passwordHash) ==
    /\ store[id] # NoRec
    /\ AsHospital(store[id]).isActive
    /\ AsHospital(store[id]).passwordHash = passwordHash

\* C17: AuthenticateHospital succeeds exactly when a record is stored under
\* the id, it is active and its password hash is the one passed; the login
\* route succeeds exactly then, for an id and a hash that are not empty;
\* and neither changes the store.
C17_AuthenticateIff ==
    [][\A id \in LoginIdIn, h \in HashIn :
          /\ QueryAuthenticateWith(id, h) =>
                /\ (last'.err = "") <=> Authentic(id, h)
                /\ store' = store
          /\ PostLoginWith(id, h) =>
                /\ (last'.err = "") <=> (Authentic(id, h) /\ h # "")
                /\ store' = store
      ]_vars

\* C17 witness: an authentication was refused as not active for a stored
\* record that is not active and whose password hash equals the one passed
\* (only the empty hash can have been refused so).
C17_Witness ==
    /\ last.fn = "AuthenticateHospital" /\ last.err = "NotActive"
    /\ store[last.id] # NoRec
    /\ ~AsHospital(store[last.id]).isActive
    /\ AsHospital(store[last.id]).passwordHash = ""

\* C18: no answer of the authentication, the login, the hospital listing
\* or the hospital read carries a password hash.
C18_NoPasswordHashInAnswers ==
    \A i \in DOMAIN resp.body :
        "passwordHash" \in DOMAIN resp.body[i]
            => resp.body[i].passwordHash = ""

\* The antigens of a blood type; a recipient can receive from a donor whose
\* antigens are all the recipient's own.
Antigens(t) ==
    CASE t = "O-"  -> {}
      [] t = "O+"  -> {"Rh"}
      [] t = "A-"  -> {"A"}
      [] t = "A+"  -> {"A", "Rh"}
      [] t = "B-"  -> {"B"}
      [] t = "B+"  -> {"B", "Rh"}
      [] t = "AB-" -> {"A", "B"}
      [] t = "AB+" -> {"A", "B", "Rh"}
Receivable(recipientType, donorType) ==
    Antigens(donorType) \subseteq Antigens(recipientType)

\* The entry shown for donor j of session c's list, with that donor.
Shown(c, j) ==
    LET entry == matches(c)[j]
        i == CHOOSE k \in 1..Len(ui[c].donors) :
                    ui[c].donors[k].id = entry.donorId
    IN  [entry |-> entry, donor |-> ui[c].donors[i].rec, at |-> i]

\* C19: an entry of the matching screen is compatible exactly when its
\* donor is VERIFIED, lists the organ the selected patient needs and has a
\* blood type the patient can receive.
C19_EligibleIffAllThree ==
    \A c \in Clients : ui[c].sel # NoSel =>
        \A j \in 1..Len(ui[c].donors) :
            LET e == Shown(c, j)
                patient == ui[c].sel.rec
            IN  e.entry.compatible <=>
                  /\ e.donor.verificationStatus = "VERIFIED"
                  /\ \E i \in DOMAIN e.donor.organsAvailable :
                        e.donor.organsAvailable[i] = patient.organNeeded
                  /\ Receivable(patient.bloodType, e.donor.bloodType)

\* C19 witness: an entry is not compatible for a donor that is not
\* VERIFIED, although the organ is listed and the blood type receivable.
C19_Witness ==
    \E c \in Clients : ui[c].sel # NoSel /\
        \E j \in 1..Len(ui[c].donors) :
            LET e == Shown(c, j)
                patient == ui[c].sel.rec
            IN  /\ ~e.entry.compatible
                /\ e.donor.verificationStatus # "VERIFIED"
                /\ isOrganCompatible(patient, e.donor)
                /\ Receivable(patient.bloodType, e.donor.bloodType)

\* C20: an entry that is not compatible carries one of the three rejection
\* reasons, and the filter the reason names does fail; the reason is the
\* not-verified one whenever the donor is not VERIFIED; a compatible entry
\* carries none of the three.
C20_ReasonNamesFailedFilter ==
    \A c \in Clients : ui[c].sel # NoSel =>
        \A j \in 1..Len(ui[c].donors) :
            LET e == Shown(c, j)
                patient == ui[c].sel.rec
                rejections ==
                    {"Donor Not Verified", "Blood Mismatch", "Organ Mismatch"}
                organListed == \E i \in DOMAIN e.donor.organsAvailable :
                        e.donor.organsAvailable[i] = patient.organNeeded
            IN  /\ ~e.entry.compatible => e.entry.reason \in rejections
                /\ e.entry.compatible => e.entry.reason \notin rejections
                /\ e.donor.verificationStatus # "VERIFIED"
                        => e.entry.reason = "Donor Not Verified"
                /\ e.entry.reason = "Donor Not Verified"
                        => e.donor.verificationStatus # "VERIFIED"
                /\ e.entry.reason = "Blood Mismatch"
                        => ~Receivable(patient.bloodType, e.donor.bloodType)
                /\ e.entry.reason = "Organ Mismatch" => ~organListed

\* C20 witness: the entry of a donor that is not VERIFIED, whose blood type
\* is not receivable and who does not list the organ, carries the
\* not-verified reason.
C20_Witness ==
    \E c \in Clients : ui[c].sel # NoSel /\
        \E j \in 1..Len(ui[c].donors) :
            LET e == Shown(c, j)
                patient == ui[c].sel.rec
            IN  /\ e.entry.reason = "Donor Not Verified"
                /\ e.donor.verificationStatus # "VERIFIED"
                /\ ~Receivable(patient.bloodType, e.donor.bloodType)
                /\ ~isOrganCompatible(patient, e.donor)

\* C21: the blood filter passes for every O- donor, for every AB+ patient
\* and for every patient and donor of one blood type: no entry of such a
\* pair is rejected for its blood, and it is compatible when the donor is
\* VERIFIED and lists the organ.
C21_UniversalDonorRecipientSelf ==
    \A c \in Clients : ui[c].sel # NoSel =>
        \A j \in 1..Len(ui[c].donors) :
            LET e == Shown(c, j)
                patient == ui[c].sel.rec
            IN  /\ patient.bloodType \in BloodTypes
                /\ e.donor.bloodType \in BloodTypes
                /\ \/ e.donor.bloodType = "O-"
                   \/ patient.bloodType = "AB+"
                   \/ e.donor.bloodType = patient.bloodType
                => /\ e.entry.reason # "Blood Mismatch"
                   /\ e.donor.verificationStatus = "VERIFIED"
                        /\ isOrganCompatible(patient, e.donor)
                        => e.entry.compatible

\* C21 witness: an AB+ patient is shown a compatible entry for an O- donor.
C21_Witness ==
    \E c \in Clients : ui[c].sel # NoSel /\
        \E j \in 1..Len(ui[c].donors) :
            LET e == Shown(c, j)
            IN  /\ ui[c].sel.rec.bloodType = "AB+"
                /\ e.donor.bloodType = "O-"
                /\ e.entry.compatible

C30_DonorStatusInDomain ==
    \A k \in Keys : IsDoc(store, k, "donor") =>
        store[k].verificationStatus
            \in {"PENDING_VERIFICATION", "VERIFIED", "REJECTED"}

\* C29: after a registration that succeeded, reading the id returns the
\* record with the fields the registration passed, a patient WAITING, a
\* donor PENDING_VERIFICATION with no verifier; a donor registered with a
\* null or an empty organ list reads back with the empty list.
C29_RegisterReadBack ==
    [][/\ \A id \in PatKeys, b \in RegBloodIn, h \in RegHlaIn, o \in NeedIn,
             ipfs \in IpfsIn, hosp \in HospIn, t \in CreatedAtIn :
            /\ Submit("CreatePatient", id,
                      CreatePatient(store, id, b, h, o, ipfs, hosp, t))
            /\ last'.err = ""
            => LET got == GetPatient(store', id)
               IN  /\ got.ok
                   /\ [got.val EXCEPT !.createdAt = 0] = [ZeroRec EXCEPT !.docType = "patient",
                            !.bloodType = b, !.hla = h, !.organNeeded = o,
                            !.ipfsHash = ipfs, !.hospitalId = hosp,
                            !.status = "WAITING"]
       /\ \A id \in DonIdIn, b \in RegBloodIn, h \in RegHlaIn,
             organs \in RegOrganListsIn, ipfs \in IpfsIn,
             consent \in ConsentIn :
            /\ Submit("CreateDonor", id,
                      CreateDonor(store, id, b, h, organs, ipfs, consent))
            /\ last'.err = ""
            => LET got == GetDonor(store', id)
               IN  /\ got.ok
                   /\ got.val = [ZeroRec EXCEPT !.docType = "donor",
                            !.bloodType = b, !.hla = h,
                            !.organsAvailable =
                                IF organs \in {NilSlice, <<>>} THEN <<>>
                                ELSE organs,
                            !.ipfsHash = ipfs, !.consentHash = consent,
                            !.verificationStatus = "PENDING_VERIFICATION",
                            !.verifiedBy = ""]]_vars

\* C29 witness: a donor registered with the null organ list is stored, and
\* a patient is stored.
C29_Witness ==
    /\ last.fn = "CreateDonor" /\ last.err = ""
    /\ store[last.id].organsAvailable = NilSlice
    /\ \E k \in PatKeys : IsDoc(store, k, "patient")

\* C22: the entry of a donor who fails a filter (not VERIFIED, organ not
\* listed, or blood type not receivable) has the total score 0.
C22_IneligibleScoresZero ==
    \A c \in Clients : ui[c].sel # NoSel =>
        \A j \in 1..Len(ui[c].donors) :
            LET e == Shown(c, j)
                patient == ui[c].sel.rec
            IN  \/ e.donor.verificationStatus # "VERIFIED"
                \/ patient.organNeeded \notin Range(e.donor.organsAvailable)
                \/ ~Receivable(patient.bloodType, e.donor.bloodType)
                => ~e.entry.compatible /\ e.entry.score = 0

\* C22 witness: a rejected donor who shares antigens with a patient who has
\* waited is shown with the score 0.
C22_Witness ==
    \E c \in Clients : ui[c].sel # NoSel /\
        \E j \in 1..Len(ui[c].donors) :
            LET e == Shown(c, j)
            IN  /\ e.donor.verificationStatus = "REJECTED"
                /\ e.entry.common > 0
                /\ e.entry.daysWaiting > 0
                /\ e.entry.score = 0

\* C23: for a patient whose hla is empty or blank, the HLA score of every
\* entry is 0.
C23_NoPatientTokensScoresZero ==
    \A c \in Clients : ui[c].sel # NoSel =>
        LET cs == Chars(ui[c].sel.rec.hla) IN
        (\A i \in 1..Len(cs) : cs[i] = " ") =>
            \A j \in 1..Len(ui[c].donors) : Shown(c, j).entry.hlaScore = 0

\* How often token t is in the list q.
Count(q, t) == Cardinality({i \in 1..Len(q) : q[i] = t})
\* The size of the multiset intersection of two token lists: the tokens of
\* p, each counted no more often than d has it.
MultisetCommon(p, d) ==
    Cardinality({i \in 1..Len(p) :
        Cardinality({k \in 1..i : p[k] = p[i]}) <= Count(d, p[i])})

\* C24: the match count of an entry is the size of the multiset
\* intersection of the trimmed tokens of the two hla strings, and the HLA
\* score is that count over the count of the patient's tokens, times 100,
\* from 0 to 100.
C24_HlaScoreByMultiset ==
    \A c \in Clients : ui[c].sel # NoSel =>
        \A j \in 1..Len(ui[c].donors) :
            LET e == Shown(c, j)
                p == hlaTokens(ui[c].sel.rec.hla)
                d == hlaTokens(e.donor.hla)
                matchCount == MultisetCommon(p, d)
            IN  /\ e.entry.common = matchCount
                /\ e.entry.hlaScore
                        = toFixed([num |-> matchCount * 100, den |-> Len(p)], 0)
                /\ e.entry.hlaScore \in 0..100

\* C25: the total score of every entry is between 0 and 100 (scores are
\* counted in tenths).
C25_TotalWithinRange ==
    \A c \in Clients : ui[c].sel # NoSel =>
        \A j \in 1..Len(ui[c].donors) :
            Shown(c, j).entry.score \in 0..1000

\* C26: the total score of a compatible entry is HLA_raw * 0.6 +
\* Waitlist_raw * 0.3 + bonus to the nearest tenth, with HLA_raw the share
\* of the patient's tokens matched times 100, Waitlist_raw the days waited
\* over 30, at most 1, times 100, and the bonus 10 for one blood type and 0
\* otherwise; it is 90 after 30 days or more with every token matched by a
\* donor of another, receivable blood type.
C26_TotalIsWeightedSum ==
    \A c \in Clients : ui[c].sel # NoSel =>
        \A j \in 1..Len(ui[c].donors) :
            LET e == Shown(c, j)
                patient == ui[c].sel.rec
                n == Len(hlaTokens(patient.hla))
                days == now - patient.createdAt
                capped == IF days < 30 THEN days ELSE 30
                bonus == IF patient.bloodType = e.donor.bloodType
                         THEN 10 ELSE 0
                \* n times the sum, in tenths: 0.6 * (common / n) * 100
                \* + 0.3 * (capped / 30) * 100 + bonus
                sum == 600 * e.entry.common + 10 * n * capped + 10 * n * bonus
                off == sum - n * e.entry.score
            IN  e.entry.compatible =>
                    /\ 2 * off <= n /\ 0 - n <= 2 * off
                    /\ days >= 30 /\ e.entry.common = n /\ bonus = 0
                        => e.entry.score = 900

\* C26 witness: after 30 days, a verified O- donor who matches all six
\* tokens of the A+ patient is shown with 90.
C26_Witness ==
    \E c \in Clients : ui[c].sel # NoSel /\
        \E j \in 1..Len(ui[c].donors) :
            LET e == Shown(c, j)
            IN  /\ e.entry.compatible
                /\ e.donor.bloodType = "O-"
                /\ e.entry.common = 6
                /\ e.entry.daysWaiting >= 30
                /\ e.entry.score = 900

\* C27: the ranked list has one entry for every donor of the list; no
\* compatible entry comes after one that is not; compatible entries come
\* by total score, highest first; entries alike in both keep the order of
\* the donor list.
C27_RankedList ==
    \A c \in Clients : ui[c].sel # NoSel =>
        LET ms == matches(c)
            donors == ui[c].donors
        IN  /\ Len(ms) = Len(donors)
            /\ \A k \in 1..Len(donors) :
                    Cardinality({j \in 1..Len(ms) :
                                    ms[j].donorId = donors[k].id}) = 1
            /\ \A i, j \in 1..Len(ms) : i < j =>
                    /\ ms[j].compatible => ms[i].compatible
                    /\ ms[i].compatible /\ ms[j].compatible
                        => ms[i].score >= ms[j].score
                    /\ ms[i].compatible = ms[j].compatible
                            /\ ms[i].score = ms[j].score
                        => Shown(c, i).at < Shown(c, j).at

\* C27 witness: the third donor of the list is ranked first, before two
\* entries alike in eligibility and score.
C27_Witness ==
    \E c \in Clients :
        /\ ui[c].sel # NoSel
        /\ Len(ui[c].donors) = 3
        /\ Shown(c, 1).at = 3
        /\ matches(c)[1].compatible /\ matches(c)[2].compatible
        /\ matches(c)[2].score = matches(c)[3].score
        /\ matches(c)[2].compatible = matches(c)[3].compatible

\* C31: a registration writes no donor with an empty or null organ list:
\* every donor a CreateDonor step stores lists at least one organ.
C31_RegisteredDonorHasOrgan ==
    [][\A k \in Keys :
        /\ last'.fn = "CreateDonor" /\ last'.id = k /\ last'.err = ""
        /\ store[k] = NoRec /\ store'[k] # NoRec
        => Len(OrEmpty(store'[k].organsAvailable)) >= 1]_vars

\* C37: the listings agree with the registry: every patient record is in
\* GetAllPatients, every donor record is in GetAllDonors, and neither
\* listing holds a record of another class.
C37_ListingsAgree ==
    LET patients == GetAllPatients(store)
        donors == GetAllDonors(store)
    IN  /\ \A k \in Keys :
            /\ IsDoc(store, k, "patient")
                => \E i \in 1..Len(patients) : patients[i].id = k
            /\ IsDoc(store, k, "donor")
                => \E i \in 1..Len(donors) : donors[i].id = k
        /\ \A i \in 1..Len(patients) : patients[i].rec.docType = "patient"
        /\ \A i \in 1..Len(donors) : donors[i].rec.docType = "donor"

\* C38: UpdateDonorStatus on a stored donor succeeds, leaves the donor's
\* organ list without any entry equal to the organ and with the other
\* entries in their order, changes no other field and no other record, and
\* a second call changes nothing; on an id that holds nothing it fails and
\* writes nothing.
C38_UpdateDonorStatusRemovesAll ==
    [][\A id \in DonIdIn, o \in OrganIn :
        Submit("UpdateDonorStatus", id, UpdateDonorStatus(store, id, o))
        => IF store[id] = NoRec
           THEN last'.err # "" /\ store' = store
           ELSE LET before == GetDonor(store, id).val
                    after == GetDonor(store', id).val
                IN  /\ last'.err = ""
                    /\ \A k \in Keys \ {id} : store'[k] = store[k]
                    /\ \A i \in 1..Len(after.organsAvailable) :
                            after.organsAvailable[i] # o
                    /\ after.organsAvailable
                        = SelectSeq(before.organsAvailable,
                                    LAMBDA organ : organ # o)
                    /\ [after EXCEPT !.organsAvailable = <<>>]
                        = [before EXCEPT !.organsAvailable = <<>>]
                    /\ UpdateDonorStatus(store', id, o).st = store'
                    /\ UpdateDonorStatus(store', id, o).err = ""]_vars

\* C38 witness: after a removal, a verified donor who listed the kidney and
\* the liver lists the liver only.
C38_Witness ==
    /\ last.fn = "UpdateDonorStatus" /\ last.err = ""
    /\ IsDoc(store, last.id, "donor")
    /\ store[last.id].organsAvailable = <<"Liver">>
    /\ store[last.id].verificationStatus = "VERIFIED"

\* C33: a flow that ends with the success notification leaves the donor
\* without the allocated organ in the stored list.
C33_SuccessMeansOrganRemoved ==
    [][\A c \in Clients :
        ApproveRefresh(c) /\ ui'[c].note = "committed"
        => LET donor == store'[ui[c].cur.donorId]
           IN  donor # NoRec
               => ui[c].cur.organ \notin Range(OrEmpty(donor.organsAvailable))]_vars

\* C35: a call acts on records of its own class only: UpdatePatientStatus
\* succeeds on patient records only, VerifyDonor and UpdateDonorStatus on
\* donor records only, and CreateMatch is never stored over a patient, a
\* donor or a hospital.
C35_OwnClassOnly ==
    [][/\ \A id \in PatKeys, status \in StatusIn :
            /\ Submit("UpdatePatientStatus", id,
                      UpdatePatientStatus(store, id, status))
            /\ last'.err = ""
            => IsDoc(store, id, "patient")
       /\ \A id \in DonIdIn, hosp \in HospIn, status \in DecisionIn :
            /\ Submit("VerifyDonor", id, VerifyDonor(store, id, hosp, status))
            /\ last'.err = ""
            => IsDoc(store, id, "donor")
       /\ \A id \in DonIdIn, o \in OrganIn :
            /\ Submit("UpdateDonorStatus", id, UpdateDonorStatus(store, id, o))
            /\ last'.err = ""
            => IsDoc(store, id, "donor")
       /\ \A id \in MatchKeys \cup PatKeys, p \in PatKeys, d \in DonIdIn,
             o \in NeedIn, hosp \in HospIn :
            /\ Submit("CreateMatch", id, CreateMatch(store, id, p, d, o, hosp))
            /\ last'.err = ""
            => /\ ~IsDoc(store, id, "patient")
               /\ ~IsDoc(store, id, "donor")
               /\ ~IsDoc(store, id, "hospital")]_vars

\* C36: CreateMatch for a stored patient who is not WAITING is rejected and
\* writes nothing, so that no second match record names the patient.
C36_PatientAllocatedOnce ==
    [][\A id \in MatchKeys \cup PatKeys, p \in PatKeys, d \in DonIdIn,
          o \in NeedIn, hosp \in HospIn :
        /\ Submit("CreateMatch", id, CreateMatch(store, id, p, d, o, hosp))
        /\ IsDoc(store, p, "patient")
        /\ store[p].status # "WAITING"
        => /\ last'.err # ""
           /\ store' = store]_vars


\* C32: in every state, a patient whom an allocation of the approve flow
\* (the one in progress or the last one finished in a session) set to
\* MATCHED has a stored Match record naming it.
C32_MatchedByAllocationHasMatch ==
    \A c \in Clients : \A a \in {ui[c].cur, ui[c].done} :
        /\ a # NoAlloc
        /\ IsDoc(store, a.patientId, "patient")
        /\ store[a.patientId].status = "MATCHED"
        => \E k \in Keys : /\ IsDoc(store, k, "match")
                           /\ store[k].patientId = a.patientId


\* C34: when a VerifyDonor and an UpdateDonorStatus for one stored donor
\* have both been answered, however their runs and commits interleaved,
\* the donor record has the decided verificationStatus and no longer lists
\* the organ.
C34_VerifyAndRemoveBothApplied ==
    \A c1 \in Clients, c2 \in Clients :
        /\ tx[c1].pc = "done" /\ tx[c1].fn = "VerifyDonor"
        /\ tx[c2].pc = "done" /\ tx[c2].fn = "UpdateDonorStatus"
        /\ tx[c1].id = tx[c2].id
        /\ tx[c1].out \notin {"NotFound", "InvalidStatus"}
        /\ tx[c2].out # "NotFound"
        => /\ store[tx[c1].id].verificationStatus = tx[c1].arg
           /\ tx[c2].arg \notin Range(store[tx[c2].id].organsAvailable)


\* C39: every approval that has set isProcessing comes to its end: the
\* session is eventually back out of processing with no patient
\* selected, whether the POST was answered 200, answered not OK, or
\* rejected.
C39_ApproveTerminates ==
    \A c \in Clients :
        (ui[c].pc # "idle") ~> (ui[c].pc = "idle" /\ ui[c].sel = NoSel)

\* C39 witness: a session whose POST failed is out of processing, the
\* error shown and no patient selected, while the other session is still
\* waiting for its own POST.
C39_Witness ==
    \E c \in Clients, o \in Clients :
        /\ ui[c].pc = "idle" /\ ui[c].note = "error" /\ ui[c].sel = NoSel
        /\ ui[o].pc = "post"

====
